---- MODULE Spec2Model ----
(***************************************************************************)
(* Model of find_and_replace (utils.py): a bulk literal find-and-replace   *)
(* over the issues a JQL query selects, gated by regex tests.              *)
(*                                                                         *)
(* Texts are sequences of one-character strings.  An issue is the function *)
(* from the names dir(issue.fields) lists to the values getattr returns.   *)
(* The module never imports sys, so every `sys.stderr.write(...)` of the   *)
(* routine raises NameError at the point where it is evaluated.            *)
(***************************************************************************)
EXTENDS Integers, Sequences, FiniteSets, TLC

\* ---------------------------------------------------------------- bounds
MaxIssues == 2
MaxTests == 2
MaxRepl == 2

\* ------------------------------------------------------------ input pools
\* Field names of the store; none of them is an attribute of a Python list.
Fields == {"summary", "status"}

\* Text values a fetched field can carry.
FieldTexts == {<<"a", "b">>, <<"b", "b">>}

\* A present field holds a str (isstr) or a null / non-str value.
FieldValue ==
    {[isstr |-> TRUE, text |-> t] : t \in FieldTexts}
        \cup {[isstr |-> FALSE, text |-> <<>>]}

\* issue.fields: every subset of the field names can be exposed.
IssueFields == UNION {[S -> FieldValue] : S \in SUBSET Fields}

\* Patterns of the tests: "a" is a literal, "(" is an unterminated group.
Regexes == {<<"a">>, <<"(">>}

\* A test is a dict with field_name and, optionally, regex.
Tests ==
    {[field_name |-> f, has_regex |-> TRUE, regex |-> p] : f \in Fields, p \in Regexes}
        \cup {[field_name |-> f, has_regex |-> FALSE, regex |-> <<>>] : f \in Fields}

OldTexts == {<<"a">>, <<"b">>}
NewTexts == {<<>>, <<"a", "a">>}

\* A replacement is a dict with field_name, old and new.
Replacements ==
    {[field_name |-> f, old |-> o, new |-> n] : f \in Fields, o \in OldTexts, n \in NewTexts}

SeqsUpTo(S, n) == UNION {[1..k -> S] : k \in 0..n}

NoIssue == [f \in {} |-> 0]
NoChanges == [f \in {} |-> <<>>]

VARIABLES
    additional_tests,    \* argument: list of tests
    replacements,        \* argument: list of replacements
    dry_run,             \* argument
    pc,                  \* "compile", "loop", "done" or "raised"
    exc,                 \* the exception that ended the call, or "none"
    ti,                  \* number of tests compiled so far
    searched,            \* number of jira.search_issues calls made
    selected_issues,
    issues_failed_tests,
    changed_issues,
    unchanged_issues,
    failed_issues,
    idx,                 \* position in `issues` of the loop variable (0 before the loop)
    issue,               \* fields of the issue the loop variable is bound to
    changes,             \* the dict `changes` of the current iteration
    event,               \* what the current iteration did
    update_calls         \* the store's record: issue.update calls per position

vars ==
    <<additional_tests, replacements, dry_run, pc, exc, ti, searched, selected_issues,
      issues_failed_tests, changed_issues, unchanged_issues, failed_issues, idx, issue,
      changes, event, update_calls>>

args == <<additional_tests, replacements, dry_run>>
tallies == <<issues_failed_tests, changed_issues, unchanged_issues, failed_issues>>

\* ------------------------------------------------------- library functions
\* re.compile: the pattern alphabet has no ")", so "(" never closes.
Compiles(p) == \A i \in 1..Len(p) : p[i] # "("

\* `sub in s` for str.
Contains(s, sub) ==
    \E i \in 0..(Len(s) - Len(sub)) : SubSeq(s, i + 1, i + Len(sub)) = sub

\* compiled.search(text) for a literal pattern.
RegexSearch(p, text) == Contains(text, p)

\* str.replace with an empty `old`: `new` before every character and at the end.
RECURSIVE Interleave(_, _)
Interleave(s, new) ==
    IF s = <<>> THEN new ELSE new \o <<Head(s)>> \o Interleave(Tail(s), new)

\* A variant of the scan that replaces the first occurrence only.
RECURSIVE ReplaceFirstOnly(_, _, _)
ReplaceFirstOnly(s, old, new) ==
    IF old = <<>> THEN new \o s
    ELSE IF Len(s) < Len(old) THEN s
    ELSE IF SubSeq(s, 1, Len(old)) = old
         THEN new \o SubSeq(s, Len(old) + 1, Len(s))
         ELSE <<Head(s)>> \o ReplaceFirstOnly(Tail(s), old, new)

\* str.replace(old, new): every non-overlapping occurrence, left to right.
RECURSIVE Replace(_, _, _)
Replace(s, old, new) ==
    IF old = <<>> THEN Interleave(s, new)
    ELSE IF Len(s) < Len(old) THEN s
    ELSE IF SubSeq(s, 1, Len(old)) = old
         THEN new \o Replace(SubSeq(s, Len(old) + 1, Len(s)), old, new)
         ELSE <<Head(s)>> \o Replace(Tail(s), old, new)

\* ----------------------------------------------------------- the routine
\* Lines 19-28, one test: "ok", or the exception that leaves the routine.
CompileKeepsGoing(test) == "ok"

CompileOutcome(test) ==
    IF test.has_regex
    THEN IF Compiles(test.regex) THEN "ok" ELSE "NameError"
    ELSE "NameError"

\* issue_fields = dir(issue.fields)
Dir(iss) == DOMAIN iss

\* getattr(issue_fields, name): issue_fields is a list and no field name is
\* an attribute of a list.
GetattrOfDir(iss, name) == [raises |-> TRUE, text |-> <<>>]

\* Lines 42-49, one test: "ok", "fail", or the exception raised.
TestAlwaysOk(test, iss) == "ok"

TestOutcome(test, iss) ==
    IF test.field_name \notin Dir(iss) THEN "NameError"
    ELSE LET got == GetattrOfDir(iss, test.field_name)
         IN  IF got.raises THEN "AttributeError"
             ELSE IF ~RegexSearch(test.regex, got.text) THEN "fail"
             ELSE "ok"

\* Lines 40-49: "passed", "fail", or the exception raised.
RECURSIVE RunTests(_, _)
RunTests(tests, iss) ==
    IF tests = <<>> THEN "passed"
    ELSE LET r == TestOutcome(Head(tests), iss)
         IN  IF r = "ok" THEN RunTests(Tail(tests), iss) ELSE r

\* Line 55
ReplacementFields(repls) == {repls[k].field_name : k \in 1..Len(repls)}

\* changes[name] = value
Stage(chg, name, value) ==
    [f \in DOMAIN chg \cup {name} |-> IF f = name THEN value ELSE chg[f]]

\* A variant of the loop that feeds each rule the result of the earlier ones.
RECURSIVE ChainedChanges(_, _, _)
ChainedChanges(repls, iss, chg) ==
    IF repls = <<>> THEN chg
    ELSE LET r == Head(repls)
             fetched == iss[r.field_name]
             old_value == IF r.field_name \in DOMAIN chg
                          THEN chg[r.field_name] ELSE fetched.text
         IN  IF ~fetched.isstr THEN ChainedChanges(Tail(repls), iss, chg)
             ELSE LET new_value == Replace(old_value, r.old, r.new)
                  IN  IF old_value # new_value
                      THEN ChainedChanges(Tail(repls), iss, Stage(chg, r.field_name, new_value))
                      ELSE ChainedChanges(Tail(repls), iss, chg)

\* A variant of the loop that stages a field whether or not it differs.
RECURSIVE StageAlways(_, _, _)
StageAlways(repls, iss, chg) ==
    IF repls = <<>> THEN chg
    ELSE LET r == Head(repls)
             old_value == iss[r.field_name]
         IN  IF ~old_value.isstr THEN StageAlways(Tail(repls), iss, chg)
             ELSE StageAlways(Tail(repls), iss,
                     Stage(chg, r.field_name, Replace(old_value.text, r.old, r.new)))

\* Lines 62-76
RECURSIVE ComputeChanges(_, _, _)
ComputeChanges(repls, iss, chg) ==
    IF repls = <<>> THEN chg
    ELSE LET r == Head(repls)
             old_value == iss[r.field_name]
         IN  IF ~old_value.isstr THEN ComputeChanges(Tail(repls), iss, chg)
             ELSE LET new_value == Replace(old_value.text, r.old, r.new)
                  IN  IF old_value.text # new_value
                      THEN ComputeChanges(Tail(repls), iss, Stage(chg, r.field_name, new_value))
                      ELSE ComputeChanges(Tail(repls), iss, chg)

\* Variants of the branch of lines 77-89.
ApplyIgnoringDryRun(dry, chg) ==
    IF DOMAIN chg # {} THEN "update" ELSE "unchanged"

ApplyDryRunUnchanged(dry, chg) ==
    IF dry THEN "unchanged"
    ELSE IF DOMAIN chg # {} THEN "update"
    ELSE "unchanged"

\* Lines 77-89: which branch the iteration takes.
ApplyBranch(dry, chg) ==
    IF dry /\ DOMAIN chg # {} THEN "dry_run"
    ELSE IF DOMAIN chg # {} THEN "update"
    ELSE "unchanged"

\* --------------------------------------------------------------- actions
Init ==
    /\ additional_tests \in SeqsUpTo(Tests, MaxTests)
    /\ replacements \in SeqsUpTo(Replacements, MaxRepl)
    /\ dry_run \in BOOLEAN
    /\ pc = "compile"
    /\ exc = "none"
    /\ ti = 0
    /\ searched = 0
    /\ selected_issues = 0
    /\ issues_failed_tests = 0
    /\ changed_issues = 0
    /\ unchanged_issues = 0
    /\ failed_issues = 0
    /\ idx = 0
    /\ issue = NoIssue
    /\ changes = NoChanges
    /\ event = "none"
    /\ update_calls = [i \in 1..MaxIssues |-> 0]

\* Lines 19-22: one test compiles.
CompileTest ==
    /\ pc = "compile"
    /\ ti < Len(additional_tests)
    /\ CompileOutcome(additional_tests[ti + 1]) = "ok"
    /\ ti' = ti + 1
    /\ UNCHANGED <<args, pc, exc, searched, selected_issues, tallies, idx, issue,
                   changes, event, update_calls>>

\* Lines 23-28: a test without regex, or whose regex does not compile.
CompileAbort ==
    /\ pc = "compile"
    /\ ti < Len(additional_tests)
    /\ CompileOutcome(additional_tests[ti + 1]) # "ok"
    /\ pc' = "raised"
    /\ exc' = CompileOutcome(additional_tests[ti + 1])
    /\ UNCHANGED <<args, ti, searched, selected_issues, tallies, idx, issue,
                   changes, event, update_calls>>

\* Lines 29-36: the search returns n issues.
SearchIssues ==
    /\ pc = "compile"
    /\ ti = Len(additional_tests)
    /\ \E n \in 0..MaxIssues : selected_issues' = n
    /\ searched' = searched + 1
    /\ issues_failed_tests' = 0
    /\ changed_issues' = 0
    /\ unchanged_issues' = 0
    /\ failed_issues' = 0
    /\ pc' = "loop"
    /\ UNCHANGED <<args, exc, ti, idx, issue, changes, event, update_calls>>

\* Line 30: the search raises.
SearchError ==
    /\ pc = "compile"
    /\ ti = Len(additional_tests)
    /\ searched' = searched + 1
    /\ pc' = "raised"
    /\ exc' = "StoreError"
    /\ UNCHANGED <<args, ti, selected_issues, tallies, idx, issue, changes, event,
                   update_calls>>

\* The loop binds the next issue.
Bind(iss) ==
    /\ pc = "loop"
    /\ idx < selected_issues
    /\ idx' = idx + 1
    /\ issue' = iss

\* Lines 37-53: the tests do not pass, or raise.
IssueTestsNotPassed ==
    \E iss \in IssueFields :
        /\ Bind(iss)
        /\ RunTests(additional_tests, iss) # "passed"
        /\ IF RunTests(additional_tests, iss) = "fail"
           THEN /\ issues_failed_tests' = issues_failed_tests + 1
                /\ event' = "failed_tests"
                /\ UNCHANGED <<pc, exc>>
           ELSE /\ pc' = "raised"
                /\ exc' = RunTests(additional_tests, iss)
                /\ event' = "raised"
                /\ UNCHANGED issues_failed_tests
        /\ changes' = NoChanges
        /\ UNCHANGED <<args, ti, searched, selected_issues, changed_issues,
                       unchanged_issues, failed_issues, update_calls>>

\* Lines 55-61: a replacement names a field the issue does not have.
IssueFieldsMissing ==
    \E iss \in IssueFields :
        /\ Bind(iss)
        /\ RunTests(additional_tests, iss) = "passed"
        /\ ~(ReplacementFields(replacements) \subseteq Dir(iss))
        /\ pc' = "raised"
        /\ exc' = "NameError"
        /\ event' = "raised"
        /\ changes' = NoChanges
        /\ UNCHANGED <<args, ti, searched, selected_issues, tallies, update_calls>>

\* The guard shared by the iterations that reach line 77.
Staged(iss) ==
    /\ Bind(iss)
    /\ RunTests(additional_tests, iss) = "passed"
    /\ ReplacementFields(replacements) \subseteq Dir(iss)
    /\ changes' = ComputeChanges(replacements, iss, NoChanges)

\* Lines 77-78
IssueDryRun ==
    \E iss \in IssueFields :
        /\ Staged(iss)
        /\ ApplyBranch(dry_run, changes') = "dry_run"
        /\ event' = "dry_run"
        /\ UNCHANGED <<args, pc, exc, ti, searched, selected_issues, tallies, update_calls>>

\* Lines 79-83: the update succeeds.
IssueUpdate ==
    \E iss \in IssueFields :
        /\ Staged(iss)
        /\ ApplyBranch(dry_run, changes') = "update"
        /\ update_calls' = [update_calls EXCEPT ![idx + 1] = @ + 1]
        /\ changed_issues' = changed_issues + 1
        /\ event' = "updated"
        /\ UNCHANGED <<args, pc, exc, ti, searched, selected_issues, issues_failed_tests,
                       unchanged_issues, failed_issues>>

\* Lines 79-87: the update raises; the handler's first statement raises.
IssueUpdateError ==
    \E iss \in IssueFields :
        /\ Staged(iss)
        /\ ApplyBranch(dry_run, changes') = "update"
        /\ update_calls' = [update_calls EXCEPT ![idx + 1] = @ + 1]
        /\ event' = "update_error"
        /\ pc' = "raised"
        /\ exc' = "NameError"
        /\ UNCHANGED <<args, ti, searched, selected_issues, tallies>>

\* Lines 88-89
IssueUnchanged ==
    \E iss \in IssueFields :
        /\ Staged(iss)
        /\ ApplyBranch(dry_run, changes') = "unchanged"
        /\ unchanged_issues' = unchanged_issues + 1
        /\ event' = "unchanged"
        /\ UNCHANGED <<args, pc, exc, ti, searched, selected_issues, issues_failed_tests,
                       changed_issues, failed_issues, update_calls>>

\* Line 90
Summary ==
    /\ pc = "loop"
    /\ idx = selected_issues
    /\ pc' = "done"
    /\ UNCHANGED <<args, exc, ti, searched, selected_issues, tallies, idx, issue,
                   changes, event, update_calls>>

Next ==
    \/ CompileTest
    \/ CompileAbort
    \/ SearchIssues
    \/ SearchError
    \/ IssueTestsNotPassed
    \/ IssueFieldsMissing
    \/ IssueDryRun
    \/ IssueUpdate
    \/ IssueUpdateError
    \/ IssueUnchanged
    \/ Summary

Spec == Init /\ [][Next]_vars

\* ------------------------------------------------- what the claims refer to
\* A validation rule without a pattern, or whose pattern fails to compile.
Malformed(test) == ~test.has_regex \/ ~Compiles(test.regex)

HasMalformed == \E k \in 1..Len(additional_tests) : Malformed(additional_tests[k])

\* The rule passes for the issue: the field is exposed and its text matches.
RulePasses(test, iss) ==
    /\ test.field_name \in DOMAIN iss
    /\ iss[test.field_name].isstr
    /\ Contains(iss[test.field_name].text, test.regex)

AllRulesPass(iss) ==
    \A k \in 1..Len(additional_tests) : RulePasses(additional_tests[k], iss)

\* The replacement rule turns the fetched text of its field into another text.
RuleChanges(r, iss) ==
    /\ r.field_name \in DOMAIN iss
    /\ iss[r.field_name].isstr
    /\ Replace(iss[r.field_name].text, r.old, r.new) # iss[r.field_name].text

\* The rules, by position, that change the fetched value of field f.
ChangingRules(f, iss) ==
    {k \in 1..Len(replacements) :
        replacements[k].field_name = f /\ RuleChanges(replacements[k], iss)}

Last(K) == CHOOSE k \in K : \A j \in K : j <= k

NoUpdateCalls == \A i \in 1..MaxIssues : update_calls[i] = 0

\* Update was called on the issue the loop is bound to.
UpdatedCurrent == idx >= 1 /\ update_calls[idx] >= 1

\* The current iteration reached line 77 with `changes` computed.
ReachedApply == event \in {"dry_run", "updated", "update_error", "unchanged"}

Tally == issues_failed_tests + changed_issues + unchanged_issues + failed_issues

\* The issue as the store holds it once the change-set is applied.
Applied(iss, chg) ==
    [f \in DOMAIN iss |->
        IF f \in DOMAIN chg THEN [isstr |-> TRUE, text |-> chg[f]] ELSE iss[f]]

\* The change-set a second application of the rule set stages.
SecondChanges == ComputeChanges(replacements, Applied(issue, changes), NoChanges)

Chars(t) == {t[i] : i \in 1..Len(t)}

\* One rule per field, each with non-empty old and new that share no character.
DisjointRules ==
    /\ \A k \in 1..Len(replacements) :
          /\ replacements[k].old # <<>>
          /\ replacements[k].new # <<>>
          /\ Chars(replacements[k].old) \cap Chars(replacements[k].new) = {}
    /\ \A j, k \in 1..Len(replacements) :
          j # k => replacements[j].field_name # replacements[k].field_name

\* ------------------------------------------------------------------ claims
\* C1: with a malformed validation rule at any position, the call ends
\* without the search ever being called and without any update: no issue is
\* processed.
C1_MalformedNeverSearches ==
    HasMalformed =>
        /\ searched = 0
        /\ idx = 0
        /\ NoUpdateCalls
        /\ pc \in {"compile", "raised"}

C1_Witness ==
    /\ pc = "raised"
    /\ Len(additional_tests) = 2
    /\ ~Malformed(additional_tests[1])
    /\ Malformed(additional_tests[2])
    /\ searched = 0

\* C2: update is called at most once per selected issue, and only on an
\* issue for which every validation rule passes and some replacement rule
\* gives a value different from the fetched one.
C2_UpdateGated ==
    /\ \A i \in 1..MaxIssues : update_calls[i] <= 1
    /\ \A i \in 1..MaxIssues : update_calls[i] >= 1 => i <= idx /\ i <= selected_issues
    /\ UpdatedCurrent =>
          /\ AllRulesPass(issue)
          /\ \E k \in 1..Len(replacements) : RuleChanges(replacements[k], issue)

C2_Witness ==
    /\ UpdatedCurrent
    /\ idx = 2
    /\ update_calls[1] = 1
    /\ event = "updated"

\* C3: under dry_run no update call is ever made, and an issue with a
\* non-empty change-set is not added to the changed tally.
C3_DryRunNeverUpdates ==
    dry_run => NoUpdateCalls /\ changed_issues = 0

C3_Witness ==
    /\ dry_run
    /\ pc = "done"
    /\ event = "dry_run"
    /\ DOMAIN changes # {}

\* C4: when the update call fails, the failed tally counts the issue and the
\* run is not aborted.
C4_UpdateFailureTallied ==
    event = "update_error" => pc # "raised" /\ failed_issues >= 1

\* C5: the change-set of an update call holds exactly the replacement fields
\* whose text differs after the replace, each mapped to the replaced text,
\* and each successful update adds one to the changed tally.
C5_ChangeSetExact ==
    /\ UpdatedCurrent =>
          /\ DOMAIN changes = {f \in Fields : ChangingRules(f, issue) # {}}
          /\ \A f \in DOMAIN changes :
                \E k \in ChangingRules(f, issue) :
                    changes[f] =
                        Replace(issue[f].text, replacements[k].old, replacements[k].new)
    /\ pc # "raised" =>
          changed_issues = Cardinality({i \in 1..MaxIssues : update_calls[i] >= 1})

C5_Witness ==
    /\ event = "updated"
    /\ additional_tests = <<>>
    /\ ~dry_run
    /\ replacements = <<[field_name |-> "summary", old |-> <<"a">>, new |-> <<"a", "a">>]>>
    /\ "summary" \in DOMAIN issue
    /\ issue["summary"] = [isstr |-> TRUE, text |-> <<"a", "b">>]
    /\ DOMAIN changes = {"summary"}
    /\ changes["summary"] = <<"a", "a", "b">>
    /\ changed_issues = 1

\* C6: an issue lacking a field some validation rule names is counted in the
\* failed-tests tally, gets no update, and the run goes on.
C6_MissingTestFieldSkipped ==
    (idx >= 1 /\ \E k \in 1..Len(additional_tests) :
                    additional_tests[k].field_name \notin DOMAIN issue)
        => /\ pc # "raised"
           /\ issues_failed_tests >= 1
           /\ update_calls[idx] = 0

\* C7: an issue exposing every tested field, one of whose texts a rule's
\* pattern does not match, is counted in the failed-tests tally and gets no
\* update.
C7_UnmatchedPatternSkipped ==
    (/\ idx >= 1
     /\ \A k \in 1..Len(additional_tests) :
           /\ additional_tests[k].field_name \in DOMAIN issue
           /\ issue[additional_tests[k].field_name].isstr
     /\ \E k \in 1..Len(additional_tests) : ~RulePasses(additional_tests[k], issue))
        => /\ pc # "raised"
           /\ issues_failed_tests >= 1
           /\ update_calls[idx] = 0

C9_LastChangingRuleWins ==
    ReachedApply =>
        \A f \in Fields :
            LET K == ChangingRules(f, issue)
            IN  IF K = {} THEN f \notin DOMAIN changes
                ELSE /\ f \in DOMAIN changes
                     /\ changes[f] = Replace(issue[f].text, replacements[Last(K)].old,
                                             replacements[Last(K)].new)

C9_Witness ==
    /\ ReachedApply
    /\ Len(replacements) = 2
    /\ replacements[1].field_name = "summary"
    /\ replacements[2].field_name = "summary"
    /\ ChangingRules("summary", issue) = {1, 2}
    /\ changes["summary"] # Replace(issue["summary"].text, replacements[1].old,
                                    replacements[1].new)
    /\ changes["summary"] #
          Replace(Replace(issue["summary"].text, replacements[1].old, replacements[1].new),
                  replacements[2].old, replacements[2].new)

\* C10: an iteration adds at most one to the four tallies together; without
\* dry_run an iteration that completes adds exactly one, so at the summary
\* selected = failed-tests + changed + unchanged + failed; under dry_run an
\* issue with a non-empty change-set is counted in none.
C10_TallyPartition ==
    [][/\ idx' = idx => Tally' = Tally
       /\ idx' = idx + 1 => Tally' \in {Tally, Tally + 1}
       /\ (idx' = idx + 1 /\ pc' # "raised" /\ ~dry_run) => Tally' = Tally + 1
       /\ (idx' = idx + 1 /\ dry_run /\ DOMAIN changes' # {}) => Tally' = Tally
       /\ (pc' = "done" /\ ~dry_run) => selected_issues' = Tally']_vars

C10_Witness ==
    /\ pc = "done"
    /\ ~dry_run
    /\ selected_issues = 2
    /\ changed_issues = 1
    /\ unchanged_issues = 1

====
